---- MODULE Spec2Model ----
(***************************************************************************)
(* Model of the two-stage code-table generator.                            *)
(*   stage 1: src/generator.py   (decomposition -> shape codes)            *)
(*   stage 2: src/transferer.py  (shape codes x pinyin -> composite codes) *)
(*                                                                         *)
(* A Python string is modelled as the sequence of its characters, and a    *)
(* character as an atom written as an ASCII string.  The CJK characters    *)
(* of the source are written by their readings:                            *)
(*   "gan" U+7518, "yi" U+4E00, "qi" U+5176, "shang" U+4E0A,               *)
(*   "mu" U+76EE, "ju" U+5177, "yu" U+4E8E, "ba" U+516B, "yu2" U+4F59,     *)
(*   "xia" U+4E0B.                                                         *)
(* None is the record [ok |-> FALSE, val |-> <<>>].                        *)
(***************************************************************************)
EXTENDS Naturals, Sequences, FiniteSets

VARIABLES
    \* ---- stage 1 (generator.py) ----
    rootmap,          \* main: rootmap, root symbol -> letter
    decomposition,    \* main: decomposition, char -> list of alternatives
    pc,               \* position of the run
    ci,               \* main: index of the current item of decomposition.items()
    ai,               \* main: index of the current alternative (parts in decomps)
    success,          \* main: success
    code,             \* main: code, the value get_code_for_decomp returned
    output,           \* rows written to OUTPUT_FILE
    missing_lines,    \* main: missing_lines
    missing_roots,    \* main: missing_roots
    singlecode_chars, \* main: singlecode_chars
    missing_log,      \* content of MISSING_LOG
    singlecode_log,   \* content of SINGLECODE_LOG
    gparts,           \* get_code_for_decomp: apply_replacements(parts)
    pi,               \* get_code_for_decomp: index of p in the for loop
    gexpanded,        \* get_code_for_decomp: expanded
    arg,              \* expand_part: part, the argument of the call being entered
    visited,          \* expand_part: visited, shared by one top-level resolution
    stack,            \* expand_part: the frames of the calls in progress
    ret,              \* expand_part: the value the last call returned
    ncalls,           \* calls of expand_part made by the current top-level resolution
    returned,         \* history of main: per alternative tried, what
                      \* get_code_for_decomp expanded and returned
    \* ---- stage 2 (transferer.py) ----
    shape_rows,       \* the rows (character, shape code) of SHAPE_FILE
    pinyin_src,       \* the lines (character, raw tokens) of PINYIN_DB_FILE
    shape_map,        \* main: shape_map, an insertion-ordered dict
    pinyin_map,       \* main: pinyin_map
    mpc,              \* position of the run
    mi,               \* main: index of the current item of shape_map.items()
    out_lines,        \* main: out_lines
    missing_pinyin,   \* main: missing_pinyin
    cannot_convert,   \* main: cannot_convert
    final_table,      \* rows written to OUT_FILE
    err_log,          \* content of ERR_LOG
    \* ---- one call of _xiaohe_double ----
    xpc,              \* position of the call
    xtoken,           \* pinyin
    xinit,            \* init
    xfin,             \* fin
    xres              \* the value returned; None stands for the ValueError

gvars == <<rootmap, decomposition, pc, ci, ai, success, code, output,
           missing_lines, missing_roots, singlecode_chars, missing_log,
           singlecode_log, gparts, pi, gexpanded, arg, visited, stack, ret,
           ncalls, returned>>

mvars == <<shape_rows, pinyin_src, shape_map, pinyin_map, mpc, mi, out_lines,
           missing_pinyin, cannot_convert, final_table, err_log>>

xvars == <<xpc, xtoken, xinit, xfin, xres>>

vars == <<gvars, mvars, xvars>>

None == [ok |-> FALSE, val |-> <<>>]
Some(s) == [ok |-> TRUE, val |-> s]

(***************************************************************************)
(* Bounds of the inputs.                                                   *)
(***************************************************************************)
\* total number of part occurrences in a generated decomposition table
MaxCells == 3
\* length of the alternative under test in the code-derivation runs
MaxParts == 4
\* number of alternatives of the character under test in the row-writing runs
MaxAlts == 2

Pool == {"gan", "yi", "qi", "shang"}
\* the characters that may own a line of the decomposition file, in file order
KeyOrder == <<"gan", "qi", "shang">>

(***************************************************************************)
(* generator.py                                                            *)
(***************************************************************************)
REPLACEMENTS ==
    << << <<"gan", "yi">>, <<"qi", "shang">> >>,
       << <<"mu", "yi">>,  <<"ju", "shang">> >>,
       << <<"yu", "ba">>,  <<"yu2", "xia">> >> >>

\* "".join(parts): every part is one character, so the joined string is the
\* sequence of these characters
Join(parts) == parts

\* str.replace(k, v): leftmost non-overlapping occurrences of k
RECURSIVE StrReplace(_, _, _)
StrReplace(s, k, v) ==
    IF Len(s) < Len(k) THEN s
    ELSE IF SubSeq(s, 1, Len(k)) = k
         THEN v \o StrReplace(SubSeq(s, Len(k) + 1, Len(s)), k, v)
         ELSE <<Head(s)>> \o StrReplace(Tail(s), k, v)

RECURSIVE ReplaceFrom(_, _)
ReplaceFrom(s, i) ==
    IF i > Len(REPLACEMENTS) THEN s
    ELSE ReplaceFrom(StrReplace(s, REPLACEMENTS[i][1], REPLACEMENTS[i][2]), i + 1)

apply_replacements(parts) == ReplaceFrom(Join(parts), 1)

\* decomposition.items(): the characters in file order
Chars == SelectSeq(KeyOrder, LAMBDA k : k \in DOMAIN decomposition)

NAlts(part) == IF part \in DOMAIN decomposition THEN Len(decomposition[part]) ELSE 0

SubParts(part, alt) ==
    IF alt <= NAlts(part) THEN apply_replacements(decomposition[part][alt]) ELSE <<>>

Top == stack[Len(stack)]
Pop == SubSeq(stack, 1, Len(stack) - 1)

\* code points, for sorted(missing_roots)
CodePoint(c) ==
    CASE c = "yi" -> 19968 [] c = "shang" -> 19978 [] c = "qi" -> 20854
      [] c = "gan" -> 29976 [] OTHER -> 0

RECURSIVE SortedChars(_)
SortedChars(S) ==
    IF S = {} THEN <<>>
    ELSE LET m == CHOOSE x \in S : \A y \in S : CodePoint(x) <= CodePoint(y)
         IN  <<m>> \o SortedChars(S \ {m})

\* ---- expand_part ----
\* a visited.add(part) that is forgotten
VisitedAddForgotten(v, part) == v

VisitedAdd(v, part) == v \cup {part}

InRootmap(part) == part \in DOMAIN rootmap

ExpandRoot ==
    /\ pc = "call"
    /\ InRootmap(arg)
    /\ ret' = Some(<<arg>>)
    /\ pc' = "ret"
    /\ UNCHANGED <<rootmap, decomposition, ci, ai, success, code, output,
                   missing_lines, missing_roots, singlecode_chars, missing_log,
                   singlecode_log, gparts, pi, gexpanded, arg, visited, stack,
                   ncalls, returned>>
    /\ UNCHANGED <<mvars, xvars>>

ExpandCycleGuard ==
    /\ pc = "call"
    /\ ~InRootmap(arg)
    /\ arg \in visited
    /\ ret' = None
    /\ pc' = "ret"
    /\ UNCHANGED <<rootmap, decomposition, ci, ai, success, code, output,
                   missing_lines, missing_roots, singlecode_chars, missing_log,
                   singlecode_log, gparts, pi, gexpanded, arg, visited, stack,
                   ncalls, returned>>
    /\ UNCHANGED <<mvars, xvars>>

ExpandVisit ==
    /\ pc = "call"
    /\ ~InRootmap(arg)
    /\ arg \notin visited
    /\ visited' = VisitedAdd(visited, arg)
    /\ stack' = Append(stack, [part |-> arg, alt |-> 1,
                               sub_parts |-> SubParts(arg, 1),
                               sp |-> 1, expanded |-> <<>>])
    /\ pc' = "loop"
    /\ UNCHANGED <<rootmap, decomposition, ci, ai, success, code, output,
                   missing_lines, missing_roots, singlecode_chars, missing_log,
                   singlecode_log, gparts, pi, gexpanded, arg, ret, ncalls,
                   returned>>
    /\ UNCHANGED <<mvars, xvars>>

ExpandCallSub ==
    /\ pc = "loop"
    /\ Top.alt <= NAlts(Top.part)
    /\ Top.sp <= Len(Top.sub_parts)
    /\ arg' = Top.sub_parts[Top.sp]
    /\ ncalls' = ncalls + 1
    /\ pc' = "call"
    /\ UNCHANGED <<rootmap, decomposition, ci, ai, success, code, output,
                   missing_lines, missing_roots, singlecode_chars, missing_log,
                   singlecode_log, gparts, pi, gexpanded, visited, stack, ret,
                   returned>>
    /\ UNCHANGED <<mvars, xvars>>

ExpandSucceed ==
    /\ pc = "loop"
    /\ Top.alt <= NAlts(Top.part)
    /\ Top.sp > Len(Top.sub_parts)
    /\ ret' = Some(Top.expanded)
    /\ stack' = Pop
    /\ pc' = "ret"
    /\ UNCHANGED <<rootmap, decomposition, ci, ai, success, code, output,
                   missing_lines, missing_roots, singlecode_chars, missing_log,
                   singlecode_log, gparts, pi, gexpanded, arg, visited, ncalls,
                   returned>>
    /\ UNCHANGED <<mvars, xvars>>

ExpandMissing ==
    /\ pc = "loop"
    /\ Top.alt > NAlts(Top.part)
    /\ missing_roots' = missing_roots \cup {Top.part}
    /\ ret' = None
    /\ stack' = Pop
    /\ pc' = "ret"
    /\ UNCHANGED <<rootmap, decomposition, ci, ai, success, code, output,
                   missing_lines, singlecode_chars, missing_log,
                   singlecode_log, gparts, pi, gexpanded, arg, visited, ncalls,
                   returned>>
    /\ UNCHANGED <<mvars, xvars>>

ExpandRecvSub ==
    /\ pc = "ret"
    /\ stack /= <<>>
    /\ stack' = [stack EXCEPT ![Len(stack)] =
                    IF ret.ok
                    THEN [@ EXCEPT !.expanded = @ \o ret.val, !.sp = @ + 1]
                    ELSE [@ EXCEPT !.alt = @ + 1,
                                   !.sub_parts = SubParts(Top.part, Top.alt + 1),
                                   !.sp = 1, !.expanded = <<>>]]
    /\ pc' = "loop"
    /\ UNCHANGED <<rootmap, decomposition, ci, ai, success, code, output,
                   missing_lines, missing_roots, singlecode_chars, missing_log,
                   singlecode_log, gparts, pi, gexpanded, arg, visited, ret,
                   ncalls, returned>>
    /\ UNCHANGED <<mvars, xvars>>

\* ---- get_code_for_decomp ----
GcdCallExpand ==
    /\ pc = "gcd"
    /\ pi <= Len(gparts)
    /\ arg' = gparts[pi]
    /\ visited' = {}
    /\ stack' = <<>>
    /\ ncalls' = 1
    /\ pc' = "call"
    /\ UNCHANGED <<rootmap, decomposition, ci, ai, success, code, output,
                   missing_lines, missing_roots, singlecode_chars, missing_log,
                   singlecode_log, gparts, pi, gexpanded, ret, returned>>
    /\ UNCHANGED <<mvars, xvars>>

GcdRecv ==
    /\ pc = "ret"
    /\ stack = <<>>
    /\ IF ret.ok
       THEN /\ gexpanded' = gexpanded \o ret.val
            /\ pi' = pi + 1
            /\ pc' = "gcd"
            /\ code' = code
       ELSE /\ code' = None
            /\ pc' = "main_ret"
            /\ UNCHANGED <<gexpanded, pi>>
    /\ UNCHANGED <<rootmap, decomposition, ci, ai, success, output,
                   missing_lines, missing_roots, singlecode_chars, missing_log,
                   singlecode_log, gparts, arg, visited, stack, ret, ncalls,
                   returned>>
    /\ UNCHANGED <<mvars, xvars>>

\* codes = [rootmap[p] for p in expanded if p in rootmap]
Codes(expanded) ==
    LET kept == SelectSeq(expanded, InRootmap)
    IN  [i \in 1..Len(kept) |-> rootmap[kept[i]]]

\* first four letters instead of the first three and the last
TakeCodeFirstFour(codes) ==
    IF Len(codes) >= 4
    THEN <<codes[1], codes[2], codes[3], codes[4]>>
    ELSE codes

\* the code taken from the letters: first, second, third and last
TakeCode(codes) ==
    IF Len(codes) >= 4
    THEN <<codes[1], codes[2], codes[3], codes[Len(codes)]>>
    ELSE codes

\* a derivation that lets a single letter through as a code
DeriveCodeKeepSingle(codes) ==
    IF Len(codes) = 0 THEN None ELSE Some(TakeCode(codes))

\* the value get_code_for_decomp returns once every part is expanded
DeriveCode(codes) ==
    IF Len(codes) <= 1 THEN None ELSE Some(TakeCode(codes))

SingleLog(char, parts) == <<char, Join(parts)>>

GcdDerive ==
    /\ pc = "gcd"
    /\ pi > Len(gparts)
    /\ LET codes == Codes(gexpanded)
           char == Chars[ci]
           parts == decomposition[char][ai]
       IN  /\ code' = DeriveCode(codes)
           /\ singlecode_chars' =
                 IF Len(codes) = 1
                 THEN Append(singlecode_chars, SingleLog(char, parts))
                 ELSE singlecode_chars
    /\ pc' = "main_ret"
    /\ UNCHANGED <<rootmap, decomposition, ci, ai, success, output,
                   missing_lines, missing_roots, missing_log,
                   singlecode_log, gparts, pi, gexpanded, arg, visited, stack,
                   ret, ncalls, returned>>
    /\ UNCHANGED <<mvars, xvars>>

\* ---- main ----
MainCallGetCode ==
    /\ pc = "main"
    /\ ci <= Len(Chars)
    /\ ai <= NAlts(Chars[ci])
    /\ gparts' = apply_replacements(decomposition[Chars[ci]][ai])
    /\ pi' = 1
    /\ gexpanded' = <<>>
    /\ pc' = "gcd"
    /\ UNCHANGED <<rootmap, decomposition, ci, ai, success, code, output,
                   missing_lines, missing_roots, singlecode_chars, missing_log,
                   singlecode_log, arg, visited, stack, ret, ncalls, returned>>
    /\ UNCHANGED <<mvars, xvars>>

\* if code: a None and an empty string are both false
Truthy(c) == c.ok /\ c.val /= <<>>

\* a row only for the first alternative that returns a code
WriteRowFirstOnly(out, char, c, succ) ==
    IF Truthy(c) /\ ~succ THEN Append(out, <<char, c.val>>) ELSE out

\* if code: fout.write(char, code)
WriteRow(out, char, c, succ) ==
    IF Truthy(c) THEN Append(out, <<char, c.val>>) ELSE out

MainRecvCode ==
    /\ pc = "main_ret"
    /\ output' = WriteRow(output, Chars[ci], code, success)
    /\ success' = (success \/ Truthy(code))
    /\ returned' = Append(returned, [char |-> Chars[ci], alt |-> ai,
                                      resolved |-> pi > Len(gparts),
                                      expanded |-> gexpanded, code |-> code])
    /\ ai' = ai + 1
    /\ pc' = "main"
    /\ UNCHANGED <<rootmap, decomposition, ci, code, missing_lines,
                   missing_roots, singlecode_chars, missing_log,
                   singlecode_log, gparts, pi, gexpanded, arg, visited, stack,
                   ret, ncalls>>
    /\ UNCHANGED <<mvars, xvars>>

MissingLines(char) ==
    [i \in 1..NAlts(char) |-> <<char, Join(decomposition[char][i])>>]

MainEndChar ==
    /\ pc = "main"
    /\ ci <= Len(Chars)
    /\ ai > NAlts(Chars[ci])
    /\ missing_lines' = IF success THEN missing_lines
                        ELSE missing_lines \o MissingLines(Chars[ci])
    /\ ci' = ci + 1
    /\ ai' = 1
    /\ success' = FALSE
    /\ UNCHANGED <<rootmap, decomposition, pc, code, output,
                   missing_roots, singlecode_chars, missing_log,
                   singlecode_log, gparts, pi, gexpanded, arg, visited, stack,
                   ret, ncalls, returned>>
    /\ UNCHANGED <<mvars, xvars>>

MainFinish ==
    /\ pc = "main"
    /\ ci > Len(Chars)
    /\ missing_log' = <<SortedChars(missing_roots)>> \o missing_lines
    /\ singlecode_log' = singlecode_chars
    /\ pc' = "done"
    /\ UNCHANGED <<rootmap, decomposition, ci, ai, success, code, output,
                   missing_lines, missing_roots, singlecode_chars,
                   gparts, pi, gexpanded, arg, visited, stack, ret, ncalls,
                   returned>>
    /\ UNCHANGED <<mvars, xvars>>

NextGen ==
    \/ MainCallGetCode
    \/ MainRecvCode
    \/ MainEndChar
    \/ MainFinish
    \/ GcdCallExpand
    \/ GcdRecv
    \/ GcdDerive
    \/ ExpandRoot
    \/ ExpandCycleGuard
    \/ ExpandVisit
    \/ ExpandCallSub
    \/ ExpandSucceed
    \/ ExpandMissing
    \/ ExpandRecvSub

(***************************************************************************)
(* transferer.py                                                           *)
(*                                                                         *)
(* Characters beyond ASCII are written as atoms: "a1".."a4" are a with the *)
(* four tone marks (likewise e, i, o, u), "u:" is u with diaeresis and     *)
(* "u:1".."u:4" its tone-marked forms, "U:" its capital, "n2" "n3" "n4"    *)
(* and "m2" the tone-marked n and m.                                       *)
(***************************************************************************)
RAW_XIAOHE ==
    <<
       << <<"Q">>, << <<"i", "u">> >> >>,
       << <<"W">>, << <<"e", "i">> >> >>,
       << <<"R">>, << <<"u", "a", "n">> >> >>,
       << <<"T">>, << <<"u", "e">>, <<"v", "e">> >> >>,
       << <<"Y">>, << <<"u", "n">> >> >>,
       << <<"U">>, << <<"s", "h">> >> >>,
       << <<"I">>, << <<"c", "h">> >> >>,
       << <<"O">>, << <<"u", "o">> >> >>,
       << <<"P">>, << <<"i", "e">> >> >>,
       << <<"S">>, << <<"i", "o", "n", "g">>, <<"o", "n", "g">> >> >>,
       << <<"D">>, << <<"a", "i">> >> >>,
       << <<"F">>, << <<"e", "n">> >> >>,
       << <<"G">>, << <<"e", "n", "g">> >> >>,
       << <<"H">>, << <<"a", "n", "g">> >> >>,
       << <<"J">>, << <<"a", "n">> >> >>,
       << <<"K">>, << <<"i", "n", "g">>, <<"u", "a", "i">> >> >>,
       << <<"L">>, << <<"i", "a", "n", "g">>, <<"u", "a", "n", "g">> >> >>,
       << <<"Z">>, << <<"o", "u">> >> >>,
       << <<"X">>, << <<"i", "a">>, <<"u", "a">> >> >>,
       << <<"C">>, << <<"a", "o">> >> >>,
       << <<"V">>, << <<"u", "i">> >> >>,
       << <<"B">>, << <<"i", "n">> >> >>,
       << <<"N">>, << <<"i", "a", "o">> >> >>,
       << <<"M">>, << <<"i", "a", "n">> >> >> >>

INITIALS ==
    << <<"z", "h">>, <<"c", "h">>, <<"s", "h">>,
       <<"b">>, <<"p">>, <<"m">>, <<"f">>, <<"d">>, <<"t">>, <<"n">>, <<"l">>,
       <<"g">>, <<"k">>, <<"h">>, <<"j">>, <<"q">>, <<"x">>, <<"r">>, <<"z">>, <<"c">>, <<"s">>,
       <<"y">>, <<"w">> >>

SINGLE_VOWELS == {<<"a">>, <<"o">>, <<"e">>, <<"i">>, <<"u">>, <<"v">>}

TONE_MAP ==
    << <<"a1", "a">>, <<"a2", "a">>, <<"a3", "a">>, <<"a4", "a">>,
       <<"e1", "e">>, <<"e2", "e">>, <<"e3", "e">>, <<"e4", "e">>,
       <<"i1", "i">>, <<"i2", "i">>, <<"i3", "i">>, <<"i4", "i">>,
       <<"o1", "o">>, <<"o2", "o">>, <<"o3", "o">>, <<"o4", "o">>,
       <<"u1", "u">>, <<"u2", "u">>, <<"u3", "u">>, <<"u4", "u">>,
       <<"u:1", "v">>, <<"u:2", "v">>, <<"u:3", "v">>, <<"u:4", "v">>,
       <<"u:", "v">>, <<"n2", "n">>, <<"n3", "n">>, <<"n4", "n">>,
       <<"m2", "m">> >>

UPPER == << "A", "B", "C", "D", "E", "F", "G", "H", "I", "J", "K", "L", "M",
           "N", "O", "P", "Q", "R", "S", "T", "U", "V", "W", "X", "Y", "Z", "U:" >>
LOWER == << "a", "b", "c", "d", "e", "f", "g", "h", "i", "j", "k", "l", "m",
           "n", "o", "p", "q", "r", "s", "t", "u", "v", "w", "x", "y", "z", "u:" >>

Digits == {"0", "1", "2", "3", "4", "5", "6", "7", "8", "9"}
Whitespace == {" "}

\* str.isalpha() of a one-character string
IsAlphaChar(c) ==
    \/ \E i \in 1..Len(LOWER) : c = LOWER[i] \/ c = UPPER[i]
    \/ \E i \in 1..Len(TONE_MAP) : c = TONE_MAP[i][1]

\* str.lower()
LowerChar(c) ==
    IF \E i \in 1..Len(UPPER) : UPPER[i] = c
    THEN LOWER[CHOOSE i \in 1..Len(UPPER) : UPPER[i] = c]
    ELSE c

Lower(s) == [i \in 1..Len(s) |-> LowerChar(s[i])]

\* str.strip()
RECURSIVE LStrip(_)
LStrip(s) == IF s /= <<>> /\ Head(s) \in Whitespace THEN LStrip(Tail(s)) ELSE s

RECURSIVE RStrip(_)
RStrip(s) ==
    IF s /= <<>> /\ s[Len(s)] \in Whitespace THEN RStrip(SubSeq(s, 1, Len(s) - 1)) ELSE s

Strip(s) == RStrip(LStrip(s))

\* str.translate(_TONE_MAP)
TranslateChar(c) ==
    IF \E i \in 1..Len(TONE_MAP) : TONE_MAP[i][1] = c
    THEN TONE_MAP[CHOOSE i \in 1..Len(TONE_MAP) : TONE_MAP[i][1] = c][2]
    ELSE c

Translate(s) == [i \in 1..Len(s) |-> TranslateChar(s[i])]

\* re.sub(r"\d+$", "", s)
RECURSIVE StripTrailingDigits(_)
StripTrailingDigits(s) ==
    IF s /= <<>> /\ s[Len(s)] \in Digits
    THEN StripTrailingDigits(SubSeq(s, 1, Len(s) - 1))
    ELSE s

remove_tone(s) == StripTrailingDigits(Translate(Strip(s)))

\* an insertion-ordered dict is the sequence of its <<key, value>> items
DictHas(d, k) == \E i \in 1..Len(d) : d[i][1] = k
DictGet(d, k) == d[CHOOSE i \in 1..Len(d) : d[i][1] = k][2]
DictKeys(d) == [i \in 1..Len(d) |-> d[i][1]]
DictPut(d, k, v) ==
    IF DictHas(d, k)
    THEN [i \in 1..Len(d) |-> IF d[i][1] = k THEN <<k, v>> ELSE d[i]]
    ELSE Append(d, <<k, v>>)

RECURSIVE PutTokens(_, _, _)
PutTokens(m, key, toks) ==
    IF toks = <<>> THEN m
    ELSE LET tok == Lower(Strip(Head(toks)))
         IN  PutTokens(IF tok /= <<>> THEN DictPut(m, tok, key) ELSE m, key, Tail(toks))

RECURSIVE BuildFrom(_, _)
\* Len(m) < 0 never holds: the test has the map evaluated at every line
BuildFrom(m, lines) ==
    IF lines = <<>> \/ Len(m) < 0 THEN m
    ELSE BuildFrom(PutTokens(m, Lower(Strip(Head(lines)[1])), Head(lines)[2]), Tail(lines))

build_xiaohe_map(raw) == BuildFrom(<<>>, raw)

XH == build_xiaohe_map(RAW_XIAOHE)

RECURSIVE MaxLen(_)
MaxLen(ss) ==
    IF ss = <<>> THEN 0
    ELSE LET m == MaxLen(Tail(ss)) IN IF Len(Head(ss)) > m THEN Len(Head(ss)) ELSE m

\* sorted(ss, key=lambda s: -len(s)): stable, longest first
RECURSIVE LongestFirstFrom(_, _)
LongestFirstFrom(ss, n) ==
    IF n = 0 THEN SelectSeq(ss, LAMBDA s : Len(s) = 0)
    ELSE SelectSeq(ss, LAMBDA s : Len(s) = n) \o LongestFirstFrom(ss, n - 1)

\* the keys left in dict order
Unsorted(ss) == ss

LongestFirst(ss) == LongestFirstFrom(ss, MaxLen(ss))

StartsWith(s, k) == Len(k) <= Len(s) /\ SubSeq(s, 1, Len(k)) = k
EndsWith(s, k) == Len(k) <= Len(s) /\ SubSeq(s, Len(s) - Len(k) + 1, Len(s)) = k

split_initial_final(pinyin) ==
    LET hits == SelectSeq(LongestFirst(INITIALS), LAMBDA init : StartsWith(pinyin, init))
    IN  IF hits /= <<>>
        THEN <<hits[1], SubSeq(pinyin, Len(hits[1]) + 1, Len(pinyin))>>
        ELSE <<<<>>, pinyin>>

\* for k in sorted(_XH.keys(), key=lambda s: -len(s)): if s.endswith(k): ... break
SuffixMatch(s) ==
    LET hits == SelectSeq(LongestFirst(DictKeys(XH)), LAMBDA k : EndsWith(s, k))
    IN  IF hits /= <<>> THEN Some(DictGet(XH, hits[1])) ELSE None

xiaohe_double_for_zero_initial(final) ==
    IF final = <<>> THEN <<<<>>, <<>>>>
    ELSE IF final \in SINGLE_VOWELS \/ (Len(final) = 1 /\ IsAlphaChar(final[1]))
    THEN <<<<final[1]>>, <<final[1]>>>>
    ELSE LET second == IF DictHas(XH, final) THEN DictGet(XH, final)
                       ELSE IF SuffixMatch(final).ok THEN SuffixMatch(final).val
                       ELSE <<final[1]>>
         IN  <<<<final[1]>>, second>>

\* the branch of _xiaohe_double for a syllable with an initial; None stands
\* for the ValueError
xiaohe_double_with_initial(init, fin) ==
    LET first == IF DictHas(XH, init) THEN DictGet(XH, init) ELSE <<init[1]>>
        matched == SuffixMatch(fin)
        second == IF DictHas(XH, fin) THEN DictGet(XH, fin)
                  ELSE IF matched.ok /\ matched.val /= <<>> THEN matched.val
                  ELSE IF fin /= <<>> THEN <<fin[1]>> ELSE <<>>
    IN  IF first = <<>> \/ second = <<>> THEN None ELSE Some(<<first, second>>)

xiaohe_double(pinyin) ==
    LET sf == split_initial_final(pinyin)
    IN  IF sf[1] = <<>> THEN Some(xiaohe_double_for_zero_initial(sf[2]))
        ELSE xiaohe_double_with_initial(sf[1], sf[2])

(***************************************************************************)
(* Inputs of stage 1.                                                      *)
(***************************************************************************)
\* the non-empty alternatives of at most n parts
Alts(n) == UNION {[1..k -> Pool] : k \in 1..n}

\* the lists of alternatives holding at most n parts in total
RECURSIVE AltLists(_)
AltLists(n) ==
    {<<>>} \cup UNION {{<<a>> \o r : r \in AltLists(n - Len(a))} : a \in Alts(n)}

RECURSIVE Cells(_)
Cells(alts) == IF alts = <<>> THEN 0 ELSE Len(Head(alts)) + Cells(Tail(alts))

\* load_decomposition: a character with a line owns its alternatives
Table(l1, l2) ==
    LET L == [k \in {KeyOrder[1], KeyOrder[2]} |-> IF k = KeyOrder[1] THEN l1 ELSE l2]
    IN  [k \in {k \in DOMAIN L : L[k] /= <<>>} |-> L[k]]

Tables(n) ==
    UNION {{Table(l1, l2) : l2 \in AltLists(n - Cells(l1))} : l1 \in AltLists(n)}

\* load_roots: several root symbols may share a letter
RootMaps ==
    { [p \in {"yi"} |-> "a"],
      [p \in {"yi", "shang"} |-> IF p = "yi" THEN "a" ELSE "b"],
      [p \in {"yi", "shang"} |-> "a"],
      [p \in {"yi", "qi"} |-> IF p = "yi" THEN "a" ELSE "b"] }

\* the variables of the other stage and of the single call, left idle
IdleMerge ==
    /\ shape_rows = <<>>
    /\ pinyin_src = <<>>
    /\ shape_map = <<>>
    /\ pinyin_map = <<>>
    /\ mpc = "idle"
    /\ mi = 1
    /\ out_lines = <<>>
    /\ missing_pinyin = {}
    /\ cannot_convert = <<>>
    /\ final_table = <<>>
    /\ err_log = [kind |-> "none"]

IdleXH ==
    /\ xpc = "idle"
    /\ xtoken = <<>>
    /\ xinit = <<>>
    /\ xfin = <<>>
    /\ xres = None

InitRun ==
    /\ IdleMerge
    /\ IdleXH
    /\ pc = "main"
    /\ ci = 1
    /\ ai = 1
    /\ success = FALSE
    /\ code = None
    /\ output = <<>>
    /\ missing_lines = <<>>
    /\ missing_roots = {}
    /\ singlecode_chars = <<>>
    /\ missing_log = <<>>
    /\ singlecode_log = <<>>
    /\ gparts = <<>>
    /\ pi = 1
    /\ gexpanded = <<>>
    /\ arg = ""
    /\ visited = {}
    /\ stack = <<>>
    /\ ret = None
    /\ ncalls = 0
    /\ returned = <<>>

\* the root maps of the generated tables: "qi" and "shang" are root symbols
\* or not
GenRootMaps == {r \in RootMaps : \A p, q \in DOMAIN r : r[p] = r[q] => p = q}

InitGen ==
    /\ rootmap \in GenRootMaps
    /\ decomposition \in Tables(MaxCells)
    /\ InitRun

SpecGen == InitGen /\ [][NextGen]_vars

\* the run is sequential: the step that is enabled is taken
FairGen == SpecGen /\ WF_vars(NextGen)

\* one character ("gan") with one alternative of up to MaxParts parts, over a
\* few decompositions of the other character
QiLists ==
    { <<>>,
      << <<"yi", "shang">> >>,
      << <<"shang">>, <<"yi", "shang">> >>,
      << <<"qi">>, <<"shang", "yi">> >> }

InitCode ==
    /\ rootmap \in RootMaps
    /\ \E a \in Alts(MaxParts), l2 \in QiLists : decomposition = Table(<<a>>, l2)
    /\ InitRun

SpecCode == InitCode /\ [][NextGen]_vars

\* one character ("gan") with up to MaxAlts alternatives
AltChoices ==
    { <<"yi">>, <<"yi", "yi">>, <<"yi", "shang">>, <<"qi">>, <<"gan", "yi">>,
      <<"shang", "qi", "yi">> }

RECURSIVE ListsOf(_, _)
ListsOf(S, n) ==
    IF n = 0 THEN {<<>>}
    ELSE ListsOf(S, n - 1) \cup {Append(l, a) : l \in ListsOf(S, n - 1), a \in S}

InitAlts ==
    /\ rootmap \in RootMaps
    /\ \E l1 \in ListsOf(AltChoices, MaxAlts), l2 \in QiLists :
          decomposition = Table(l1, l2)
    /\ InitRun

SpecAlts == InitAlts /\ [][NextGen]_vars

\* three characters whose decompositions nest: "gan" refers to "qi" and
\* "shang", "qi" to "shang", and "shang" to a root symbol or back to "qi"
Table3(l1, l2, l3) ==
    LET L == [k \in {KeyOrder[1], KeyOrder[2], KeyOrder[3]} |->
                 IF k = KeyOrder[1] THEN l1 ELSE IF k = KeyOrder[2] THEN l2 ELSE l3]
    IN  [k \in {k \in DOMAIN L : L[k] /= <<>>} |-> L[k]]

NestGanLists ==
    { << <<"qi">> >>,
      << <<"qi", "qi">> >>,
      << <<"shang">>, <<"qi">> >> }

NestQiLists ==
    { << <<"shang", "shang">> >>,
      << <<"shang">>, <<"shang", "yi">> >>,
      << <<"gan">>, <<"yi">> >>,
      << <<"yi", "shang">> >> }

NestShangLists ==
    { <<>>,
      << <<"yi">> >>,
      << <<"yi", "yi">> >>,
      << <<"qi">> >> }

InitNest ==
    /\ rootmap \in RootMaps
    /\ \E l1 \in NestGanLists, l2 \in NestQiLists, l3 \in NestShangLists :
          decomposition = Table3(l1, l2, l3)
    /\ InitRun

SpecNest == InitNest /\ [][NextGen]_vars

(***************************************************************************)
(* transferer.py: the loaders and main                                     *)
(***************************************************************************)
\* _load_shape_table: mp[ch].append(code), in file order
RECURSIVE LoadShapeFrom(_, _)
LoadShapeFrom(mp, rows) ==
    IF rows = <<>> THEN mp
    ELSE LET ch == Head(rows)[1]
             shape == Head(rows)[2]
             old == IF DictHas(mp, ch) THEN DictGet(mp, ch) ELSE <<>>
         IN  LoadShapeFrom(DictPut(mp, ch, Append(old, shape)), Tail(rows))

load_shape_table(rows) == LoadShapeFrom(<<>>, rows)

\* a normalisation that keeps the tokens that came out empty
NormListKeepEmpty(raw_list) ==
    [i \in 1..Len(raw_list) |->
        StrReplace(Lower(remove_tone(raw_list[i])), <<"u:">>, <<"v">>)]

\* norm_list: remove the tone, lower, u-diaeresis to v, drop what is empty
NormList(raw_list) ==
    SelectSeq([i \in 1..Len(raw_list) |->
                  StrReplace(Lower(remove_tone(raw_list[i])), <<"u:">>, <<"v">>)],
              LAMBDA p0 : p0 /= <<>>)

\* uniq: the first occurrence of every token, in order
RECURSIVE Uniq(_)
Uniq(ps) ==
    IF ps = <<>> THEN <<>>
    ELSE LET front == Uniq(SubSeq(ps, 1, Len(ps) - 1))
             last == ps[Len(ps)]
         IN  IF \E i \in 1..Len(front) : front[i] = last THEN front
             ELSE Append(front, last)

\* _load_pinyin_db: if uniq: mp[ch].extend(uniq)
RECURSIVE LoadPinyinFrom(_, _)
LoadPinyinFrom(mp, lines) ==
    IF lines = <<>> THEN mp
    ELSE LET ch == Head(lines)[1]
             uniq == Uniq(NormList(Head(lines)[2]))
             old == IF DictHas(mp, ch) THEN DictGet(mp, ch) ELSE <<>>
         IN  LoadPinyinFrom(IF uniq /= <<>> THEN DictPut(mp, ch, old \o uniq) ELSE mp,
                            Tail(lines))

load_pinyin_db(lines) == LoadPinyinFrom(<<>>, lines)

\* pinyin_map.get(ch); None is falsy like an empty list
Pinyins(ch) == IF DictHas(pinyin_map, ch) THEN DictGet(pinyin_map, ch) ELSE <<>>

MCh == shape_map[mi][1]
MShapes == shape_map[mi][2]

IsShort(shape) == Len(shape) < 2

\* rows that stop at the first reading that does not convert
ShapeLinesStopAtFailure(ch, shape, pinyins) ==
    LET bad == {j \in 1..Len(pinyins) : ~xiaohe_double(pinyins[j]).ok}
        n == IF bad = {} THEN Len(pinyins)
             ELSE (CHOOSE j \in bad : \A k \in bad : j <= k) - 1
    IN  [j \in 1..n |->
            <<ch, xiaohe_double(pinyins[j]).val[1] \o xiaohe_double(pinyins[j]).val[2]
                  \o <<shape[1]>> \o <<shape[Len(shape)]>> >>]

\* the rows one shape code yields: one per reading that converts
ShapeLines(ch, shape, pinyins) ==
    LET ok == SelectSeq(pinyins, LAMBDA p : xiaohe_double(p).ok)
    IN  [j \in 1..Len(ok) |->
            <<ch, xiaohe_double(ok[j]).val[1] \o xiaohe_double(ok[j]).val[2]
                  \o <<shape[1]>> \o <<shape[Len(shape)]>> >>]

\* the entries one shape code adds to cannot_convert
ShapeFailures(ch, pinyins) ==
    LET bad == SelectSeq(pinyins, LAMBDA p : ~xiaohe_double(p).ok)
    IN  [j \in 1..Len(bad) |-> <<ch, bad[j]>>]

RECURSIVE CharLines(_, _, _)
CharLines(ch, shapes, pinyins) ==
    IF shapes = <<>> THEN <<>>
    ELSE ShapeLines(ch, Head(shapes), pinyins) \o CharLines(ch, Tail(shapes), pinyins)

RECURSIVE CharFailures(_, _, _)
CharFailures(ch, shapes, pinyins) ==
    IF shapes = <<>> THEN <<>>
    ELSE ShapeFailures(ch, pinyins) \o CharFailures(ch, Tail(shapes), pinyins)

\* index of the first shape code shorter than 2, 0 when there is none
FirstShort(shapes) ==
    LET short == {k \in 1..Len(shapes) : IsShort(shapes[k])}
    IN  IF short = {} THEN 0 ELSE CHOOSE k \in short : \A j \in short : k <= j

MLoad ==
    /\ mpc = "load"
    /\ shape_map' = load_shape_table(shape_rows)
    /\ pinyin_map' = load_pinyin_db(pinyin_src)
    /\ mpc' = "loop"
    /\ UNCHANGED <<shape_rows, pinyin_src, mi, out_lines, missing_pinyin,
                   cannot_convert, final_table, err_log>>
    /\ UNCHANGED <<gvars, xvars>>

\* if not pinyins: missing_pinyin.add(ch); continue
MMissingPinyin ==
    /\ mpc = "loop"
    /\ mi <= Len(shape_map)
    /\ Pinyins(MCh) = <<>>
    /\ missing_pinyin' = missing_pinyin \cup {MCh}
    /\ mi' = mi + 1
    /\ UNCHANGED <<shape_rows, pinyin_src, shape_map, pinyin_map, mpc, out_lines,
                   cannot_convert, final_table, err_log>>
    /\ UNCHANGED <<gvars, xvars>>

\* a shape code shorter than 2: the error log is written and SystemExit raised
MFatal ==
    /\ mpc = "loop"
    /\ mi <= Len(shape_map)
    /\ Pinyins(MCh) /= <<>>
    /\ FirstShort(MShapes) /= 0
    /\ LET k == FirstShort(MShapes)
       IN  /\ cannot_convert' = cannot_convert
                 \o CharFailures(MCh, SubSeq(MShapes, 1, k - 1), Pinyins(MCh))
           /\ err_log' = [kind |-> "ERROR", char |-> MCh, shape |-> MShapes[k]]
    /\ mpc' = "aborted"
    /\ UNCHANGED <<shape_rows, pinyin_src, shape_map, pinyin_map, mi, out_lines,
                   missing_pinyin, final_table>>
    /\ UNCHANGED <<gvars, xvars>>

\* every shape code x every reading; out_lines.extend(char_lines)
MCharRows ==
    /\ mpc = "loop"
    /\ mi <= Len(shape_map)
    /\ Pinyins(MCh) /= <<>>
    /\ FirstShort(MShapes) = 0
    /\ out_lines' = out_lines \o CharLines(MCh, MShapes, Pinyins(MCh))
    /\ cannot_convert' = cannot_convert \o CharFailures(MCh, MShapes, Pinyins(MCh))
    /\ mi' = mi + 1
    /\ UNCHANGED <<shape_rows, pinyin_src, shape_map, pinyin_map, mpc,
                   missing_pinyin, final_table, err_log>>
    /\ UNCHANGED <<gvars, xvars>>

\* the output and the log are written once the loop is over
MFinish ==
    /\ mpc = "loop"
    /\ mi > Len(shape_map)
    /\ final_table' = out_lines
    /\ err_log' = [kind |-> "SUMMARY", missing |-> SortedChars(missing_pinyin),
                   cannot |-> cannot_convert, count |-> Len(out_lines)]
    /\ mpc' = "done"
    /\ UNCHANGED <<shape_rows, pinyin_src, shape_map, pinyin_map, mi, out_lines,
                   missing_pinyin, cannot_convert>>
    /\ UNCHANGED <<gvars, xvars>>

NextMerge ==
    \/ MLoad
    \/ MMissingPinyin
    \/ MFatal
    \/ MCharRows
    \/ MFinish

(***************************************************************************)
(* Inputs of stage 2.                                                      *)
(***************************************************************************)
\* rows of the intermediate table
MaxRows == 2

ShapeCodes == {<<"a">>, <<"a", "b">>, <<"c", "d", "e">>}

ShapeRows == {<<ch, shape>> : ch \in {"gan", "qi"}, shape \in ShapeCodes}

\* raw syllable tokens: n-acute, shuang with a tone mark, NU:3 and nu:4 (both
\* normalise to nv), a with a tone mark, and a bare tone number
RawNg == <<"n2">>
RawShuang == <<"s", "h", "u", "a1", "n", "g">>
RawNV3 == <<"N", "U:", "3">>
RawNv4 == <<"n", "u:4">>
RawA == <<"a1">>
RawFive == <<"5">>

RawLists ==
    { <<RawNg>>, <<RawShuang, RawNg>>, <<RawFive>>, <<RawNV3, RawNv4, RawA>>,
      <<RawFive, RawShuang>> }

PinyinLines == {<<ch, raw>> : ch \in {"gan", "qi"}, raw \in RawLists}

PinyinSources ==
    {<<>>} \cup {<<l>> : l \in PinyinLines}
           \cup {<<l1, l2>> : l1 \in PinyinLines, l2 \in PinyinLines}

IdleGen ==
    /\ rootmap = <<>>
    /\ decomposition = <<>>
    /\ pc = "idle"
    /\ ci = 1
    /\ ai = 1
    /\ success = FALSE
    /\ code = None
    /\ output = <<>>
    /\ missing_lines = <<>>
    /\ missing_roots = {}
    /\ singlecode_chars = <<>>
    /\ missing_log = <<>>
    /\ singlecode_log = <<>>
    /\ gparts = <<>>
    /\ pi = 1
    /\ gexpanded = <<>>
    /\ arg = ""
    /\ visited = {}
    /\ stack = <<>>
    /\ ret = None
    /\ ncalls = 0
    /\ returned = <<>>

InitMerge ==
    /\ IdleGen
    /\ IdleXH
    /\ shape_rows \in ListsOf(ShapeRows, MaxRows)
    /\ pinyin_src \in PinyinSources
    /\ shape_map = <<>>
    /\ pinyin_map = <<>>
    /\ mpc = "load"
    /\ mi = 1
    /\ out_lines = <<>>
    /\ missing_pinyin = {}
    /\ cannot_convert = <<>>
    /\ final_table = <<>>
    /\ err_log = [kind |-> "none"]

SpecMerge == InitMerge /\ [][NextMerge]_vars

(***************************************************************************)
(* One call of _xiaohe_double on a normalised token.                       *)
(***************************************************************************)
\* length of the token
MaxTok == 5

XAlphabet == {"a", "i", "u", "n", "g", "h", "s", "1"}

Tokens == UNION {[1..k -> XAlphabet] : k \in 0..MaxTok}

XSplit ==
    /\ xpc = "call"
    /\ xinit' = split_initial_final(xtoken)[1]
    /\ xfin' = split_initial_final(xtoken)[2]
    /\ xpc' = "split"
    /\ UNCHANGED <<xtoken, xres>>
    /\ UNCHANGED <<gvars, mvars>>

XZeroInitial ==
    /\ xpc = "split"
    /\ xinit = <<>>
    /\ xres' = Some(xiaohe_double_for_zero_initial(xfin))
    /\ xpc' = "done"
    /\ UNCHANGED <<xtoken, xinit, xfin>>
    /\ UNCHANGED <<gvars, mvars>>

XWithInitial ==
    /\ xpc = "split"
    /\ xinit /= <<>>
    /\ xres' = xiaohe_double_with_initial(xinit, xfin)
    /\ xpc' = "done"
    /\ UNCHANGED <<xtoken, xinit, xfin>>
    /\ UNCHANGED <<gvars, mvars>>

NextXH ==
    \/ XSplit
    \/ XZeroInitial
    \/ XWithInitial

InitXH ==
    /\ IdleGen
    /\ IdleMerge
    /\ xpc = "call"
    /\ xtoken \in Tokens
    /\ xinit = <<>>
    /\ xfin = <<>>
    /\ xres = None

SpecXH == InitXH /\ [][NextXH]_vars

(***************************************************************************)
(* Properties of stage 1.                                                  *)
(***************************************************************************)
\* the parts that have a derivation into root symbols: the least set holding
\* the root symbols and every part one of whose alternatives lies in the set
DerivStep(S) ==
    S \cup {p \in DOMAIN decomposition :
              \E i \in 1..NAlts(p) :
                 \A j \in 1..Len(SubParts(p, i)) : SubParts(p, i)[j] \in S}

RECURSIVE DerivFrom(_, _)
DerivFrom(S, n) == IF n = 0 THEN S ELSE DerivFrom(DerivStep(S), n - 1)

Derivable == DerivFrom(DOMAIN rootmap, Cardinality(Pool))

\* the non-root parts a part refers to, in one step and in any number
Refs(p) ==
    {SubParts(p, i)[j] : <<i, j>> \in
        {x \in (1..NAlts(p)) \X (1..(MaxCells + MaxParts)) : x[2] <= Len(SubParts(p, x[1]))}}
        \ DOMAIN rootmap

RECURSIVE ReachFrom(_, _)
ReachFrom(S, n) ==
    IF n = 0 THEN S ELSE ReachFrom(S \cup UNION {Refs(q) : q \in S}, n - 1)

Reach(p) == ReachFrom(Refs(p), Cardinality(Pool))

Acyclic == \A p \in Pool \ DOMAIN rootmap : p \notin Reach(p)

LeavesAreRoots ==
    \A p \in DOMAIN decomposition : Refs(p) \subseteq DOMAIN decomposition

TableCells ==
    LET c(k) == IF k \in DOMAIN decomposition THEN Cells(decomposition[k]) ELSE 0
    IN  c(KeyOrder[1]) + c(KeyOrder[2]) + c(KeyOrder[3])

StackParts == {stack[i].part : i \in 1..Len(stack)}

Letters(expanded) == [i \in 1..Len(expanded) |-> rootmap[expanded[i]]]

\* C2: a top-level resolution makes a bounded number of expand_part calls
\* (every part is entered at most once, so at most one call per part
\* occurrence of the table, plus the top-level call), never nests deeper than
\* the number of non-root parts, and a part with no derivation into
\* root symbols (one whose alternatives only lead into a cycle) returns None.
C2_ExpandTerminates ==
    /\ ncalls <= 1 + TableCells
    /\ Len(stack) <= Cardinality(Pool \ DOMAIN rootmap)
    /\ \A i, j \in 1..Len(stack) : i /= j => stack[i].part /= stack[j].part
    /\ (pc = "ret" /\ stack = <<>> /\ gparts[pi] \notin Derivable) => ~ret.ok

\* the same with the run reaching its end
C2_Terminates == []C2_ExpandTerminates /\ <>(pc = "done")

\* a top-level resolution of a part lying on a cycle has returned None after
\* the cycle guard stopped the recursion
C2_Witness ==
    /\ pc = "ret"
    /\ stack = <<>>
    /\ gparts[pi] \in DOMAIN decomposition
    /\ gparts[pi] \in Reach(gparts[pi])
    /\ gparts[pi] \notin Derivable
    /\ ncalls >= 2
    /\ ~ret.ok

\* the cycle guard fires only on a part that is its own ancestor on the
\* current expansion path
GuardOnlyOnAncestor ==
    (pc = "call" /\ ~InRootmap(arg) /\ arg \in visited) => arg \in StackParts

\* C3: the visited set causes no false positive: a part that is not its own
\* ancestor resolves at every occurrence, so in a table with no cycle whose
\* leaves are all root symbols every top-level resolution succeeds.
C3_NoFalsePositive ==
    (pc = "ret" /\ stack = <<>> /\ Acyclic /\ LeavesAreRoots) => ret.ok

\* C1: every row of the intermediate table has a code of 2, 3 or 4 letters;
\* an alternative resolved to exactly one letter returns no code, so writes
\* no row, and is logged with its original parts in the single-letter log.
IsSingle(e) == e.resolved /\ Len(e.expanded) = 1

RowsOf(hist) ==
    LET ok == SelectSeq(hist, LAMBDA e : e.code.ok)
    IN  [i \in 1..Len(ok) |-> <<ok[i].char, ok[i].code.val>>]

SinglesOf(hist) ==
    LET one == SelectSeq(hist, IsSingle)
    IN  [i \in 1..Len(one) |-> <<one[i].char, decomposition[one[i].char][one[i].alt]>>]

C1_ShapeCodeLength ==
    /\ \A i \in 1..Len(output) : Len(output[i][2]) \in {2, 3, 4}
    /\ \A i \in 1..Len(returned) : IsSingle(returned[i]) => ~returned[i].code.ok
    /\ output = RowsOf(returned)
    /\ pc \in {"main", "done"} => singlecode_chars = SinglesOf(returned)
    /\ pc = "done" => singlecode_log = SinglesOf(returned)

C1_Witness ==
    /\ pc = "done"
    /\ \E i \in 1..Len(returned) : IsSingle(returned[i])
    /\ singlecode_log /= <<>>
    /\ \E i \in 1..Len(output) : Len(output[i][2]) = 4

\* C5: when get_code_for_decomp returns, the code of a fully resolved
\* alternative with letters L is L[1] L[2] L[3] L[last] for 4 or more letters
\* and L itself for 2 or 3; an alternative with a part that does not resolve
\* returns None.
C5_CodeDerivation ==
    pc = "main_ret" =>
       LET L == Letters(gexpanded)
           resolved == pi > Len(gparts)
           derivable == Derivable
       IN  /\ \A j \in 1..Len(gexpanded) : gexpanded[j] \in DOMAIN rootmap
           /\ resolved /\ Len(L) >= 4 =>
                 /\ code.ok
                 /\ Len(code.val) = 4
                 /\ \A j \in 1..3 : code.val[j] = L[j]
                 /\ code.val[4] = L[Len(L)]
           /\ resolved /\ Len(L) \in {2, 3} => code.ok /\ code.val = L
           /\ ~resolved => code = None
           /\ (\E j \in 1..Len(gparts) : gparts[j] \notin derivable) => ~resolved

C5_Witness ==
    /\ pc = "main_ret"
    /\ pi > Len(gparts)
    /\ Len(gexpanded) >= 5
    /\ Letters(gexpanded)[4] /= Letters(gexpanded)[Len(gexpanded)]
    /\ gparts /= decomposition[Chars[ci]][ai]
    /\ code.ok

\* C6: a character gets one row per alternative that returned a code, in
\* alternative order, every alternative being tried; its alternatives are
\* logged as missing lines exactly when none returned a code, and then all
\* of them are.
AltsOf(c) == [i \in 1..NAlts(c) |-> <<c, i>>]

RECURSIVE Flatten(_)
Flatten(ss) == IF ss = <<>> THEN <<>> ELSE Head(ss) \o Flatten(Tail(ss))

Coded(c) == \E i \in 1..Len(returned) : returned[i].char = c /\ returned[i].code.ok

ExpectedMissing(c) ==
    IF Coded(c) THEN <<>>
    ELSE [i \in 1..NAlts(c) |-> <<c, decomposition[c][i]>>]

C6_RowsAndMissing ==
    /\ output = RowsOf(returned)
    /\ pc = "done" =>
         /\ [i \in 1..Len(returned) |-> <<returned[i].char, returned[i].alt>>]
               = Flatten([k \in 1..Len(Chars) |-> AltsOf(Chars[k])])
         /\ missing_lines = Flatten([k \in 1..Len(Chars) |-> ExpectedMissing(Chars[k])])
         /\ missing_log = <<SortedChars(missing_roots)>> \o missing_lines

C6_Witness ==
    /\ pc = "done"
    /\ Len(Chars) = 2
    /\ Len(SelectSeq(output, LAMBDA r : r[1] = Chars[1])) >= 2
    /\ ~Coded(Chars[2])
    /\ NAlts(Chars[2]) >= 2
    /\ Len(missing_lines) = NAlts(Chars[2])

(***************************************************************************)
(* Properties of stage 2.                                                  *)
(***************************************************************************)
HasSingleLetterRow == \E i \in 1..Len(shape_rows) : Len(shape_rows[i][2]) = 1

\* C4: an intermediate table holding a row with a 1-letter shape code makes
\* stage 2 abort, whatever the other rows and the phonetic data are: the run
\* never ends normally, no row reaches the final table, and the error log
\* names the offending character and code.
C4_FatalOnSingleLetter ==
    HasSingleLetterRow =>
       /\ mpc /= "done"
       /\ final_table = <<>>
       /\ mpc = "aborted" =>
             /\ err_log.kind = "ERROR"
             /\ Len(err_log.shape) = 1
             /\ \E i \in 1..Len(shape_rows) :
                   shape_rows[i] = <<err_log.char, err_log.shape>>

ShapesOf(ch) ==
    LET mine == SelectSeq(shape_rows, LAMBDA r : r[1] = ch)
    IN  [i \in 1..Len(mine) |-> mine[i][2]]

Converts(p) == xiaohe_double(p).ok

\* the composite code of a shape code and a reading
Composite(shape, p) ==
    <<xiaohe_double(p).val[1][1], xiaohe_double(p).val[2][1],
      shape[1], shape[Len(shape)]>>

IsCompositeRow(r) ==
    /\ Len(r[2]) = 4
    /\ \E k \in 1..Len(ShapesOf(r[1])), j \in 1..Len(Pinyins(r[1])) :
          LET shape == ShapesOf(r[1])[k]
              p == Pinyins(r[1])[j]
          IN  /\ Converts(p)
              /\ Len(xiaohe_double(p).val[1]) = 1
              /\ Len(xiaohe_double(p).val[2]) = 1
              /\ Len(shape) >= 2
              /\ r[2] = Composite(shape, p)

\* C7: every row of the final table carries exactly 4 letters: the two
\* letters the transliterator returns for a reading of the character, then
\* the first and the last letter of one of its shape codes.
C7_CompositeCode ==
    /\ \A i \in 1..Len(out_lines) : IsCompositeRow(out_lines[i])
    /\ \A i \in 1..Len(final_table) : IsCompositeRow(final_table[i])
    /\ mpc = "done" => final_table = out_lines

\* rows were written for a character one of whose raw tokens normalises to
\* the empty string
C7_Witness ==
    /\ mpc = "done"
    /\ \E i \in 1..Len(pinyin_src) :
          /\ \E j \in 1..Len(pinyin_src[i][2]) : pinyin_src[i][2][j] = RawFive
          /\ \E k \in 1..Len(final_table) : final_table[k][1] = pinyin_src[i][1]

RowsFor(ch) == SelectSeq(final_table, LAMBDA r : r[1] = ch)

ConvertingIndexes(ch) == {j \in 1..Len(Pinyins(ch)) : Converts(Pinyins(ch)[j])}

Occurs(x, seq) == \E i \in 1..Len(seq) : seq[i] = x

\* C8: a reading that does not convert is recorded in cannot_convert and
\* costs only its own pairs: a character with readings and only shape codes
\* of 2 letters or more gets |shape codes| x |converting readings| rows, one
\* for every other pair, and the run is not aborted.
C8_SkipOnlyFailedPair ==
    /\ (\A i \in 1..Len(shape_map) :
           Pinyins(shape_map[i][1]) = <<>> \/ FirstShort(shape_map[i][2]) = 0)
          => mpc /= "aborted"
    /\ mpc = "done" =>
          \A i \in 1..Len(shape_map) :
             LET ch == shape_map[i][1]
                 shapes == ShapesOf(ch)
             IN  Pinyins(ch) /= <<>> =>
                    /\ \A k \in 1..Len(shapes) : Len(shapes[k]) >= 2
                    /\ Len(RowsFor(ch)) = Len(shapes) * Cardinality(ConvertingIndexes(ch))
                    /\ \A k \in 1..Len(shapes), j \in ConvertingIndexes(ch) :
                          Occurs(<<ch, Composite(shapes[k], Pinyins(ch)[j])>>, RowsFor(ch))
                    /\ \A j \in 1..Len(Pinyins(ch)) :
                          ~Converts(Pinyins(ch)[j]) =>
                             /\ Occurs(<<ch, Pinyins(ch)[j]>>, cannot_convert)
                             /\ Occurs(<<ch, Pinyins(ch)[j]>>, err_log.cannot)

\* a character with two shape codes whose first reading does not convert and
\* whose later reading does: two rows, the failure recorded
C8_Witness ==
    /\ mpc = "done"
    /\ \E i \in 1..Len(shape_map) :
          LET ch == shape_map[i][1]
          IN  /\ Len(shape_map[i][2]) = 2
              /\ Len(Pinyins(ch)) >= 2
              /\ ~Converts(Pinyins(ch)[1])
              /\ Cardinality(ConvertingIndexes(ch)) = 1
              /\ Len(RowsFor(ch)) = 2
              /\ cannot_convert /= <<>>

(***************************************************************************)
(* Properties of _xiaohe_double.                                           *)
(***************************************************************************)
\* C9: _xiaohe_double returns two non-empty letters or reports a failure,
\* for every normalised token, the empty one included.
C9_NeverEmptyLetter ==
    (xpc = "done" /\ xres.ok) => (xres.val[1] /= <<>> /\ xres.val[2] /= <<>>)

XHKeys == {XH[i][1] : i \in 1..Len(XH)}

XHLetter(k) == (CHOOSE item \in {XH[i] : i \in 1..Len(XH)} : item[1] = k)[2]

SuffixKeys(fin) ==
    {k \in XHKeys :
        /\ Len(k) <= Len(fin)
        /\ \A i \in 1..Len(k) : k[i] = fin[Len(fin) - Len(k) + i]}

ExpectedSecond(fin) ==
    IF fin \in XHKeys THEN XHLetter(fin)
    ELSE IF SuffixKeys(fin) /= {}
    THEN XHLetter(CHOOSE k \in SuffixKeys(fin) : \A k2 \in SuffixKeys(fin) : Len(k2) <= Len(k))
    ELSE <<fin[1]>>

\* C10: with a multi-letter final and no initial, and with an initial, the
\* second letter is the scheme letter of the final when the final is a key,
\* else that of the longest key that is a suffix of the final, else the
\* first letter of the final; no two distinct keys of one length match.
C10_SecondLetter ==
    xpc = "done" =>
       /\ (xinit = <<>> /\ Len(xfin) >= 2) =>
             xres.ok /\ xres.val[2] = ExpectedSecond(xfin)
       /\ (xinit /= <<>> /\ xfin /= <<>>) =>
             xres.ok /\ xres.val[2] = ExpectedSecond(xfin)
       /\ (xinit /= <<>> /\ xres.ok) => xfin /= <<>>
       /\ \A k1, k2 \in SuffixKeys(xfin) : Len(k1) = Len(k2) => k1 = k2

\* a syllable with an initial whose final is no key and ends in two keys
C10_Witness ==
    /\ xpc = "done"
    /\ xinit /= <<>>
    /\ xfin \notin XHKeys
    /\ Cardinality(SuffixKeys(xfin)) >= 2
    /\ xres.ok
    /\ xres.val[2] = ExpectedSecond(xfin)

====
